---- MODULE Spec2Model ----
(***************************************************************************)
(* A model of src/app.py of learning-tracker: the Notion fetch loops, the  *)
(* record normalizers (process_raw_data, process_goal_data), the series    *)
(* builder (analyze_data) and the month view composed by main().           *)
(*                                                                         *)
(* A DataFrame is a sequence of row records; the empty DataFrame is << >>. *)
(* A calendar date (a pandas Timestamp / datetime at start of day) is a    *)
(* record [year, month, day].  A JSON value of a Notion property is a      *)
(* tagged record, so that null, numbers and objects can be told apart.     *)
(* A mean is an exact fraction [num, den] in lowest terms.                 *)
(***************************************************************************)
EXTENDS Integers, Sequences, FiniteSets, TLC

(***************************************************************************)
(* Bounds of the model.                                                    *)
(***************************************************************************)
\* the activity database holds at most this many records
MaxRecords == 2
\* the goal database holds at most this many records
MaxGoals == 2

(***************************************************************************)
(* Program constants.                                                      *)
(***************************************************************************)
PROPERTY_DATE == "PROPERTY_DATE"
PROPERTY_TIME == "PROPERTY_TIME"
PROPERTY_MONTH_TITLE == "PROPERTY_MONTH_TITLE"
PROPERTY_GOAL == "PROPERTY_GOAL"
\* rolling(window=60, min_periods=1)
WINDOW == 60
\* goal hours to minutes
MINUTES_PER_HOUR == 60

(***************************************************************************)
(* The calendar of datetime: dates, day successor and predecessor.         *)
(***************************************************************************)
Date(y, m, d) == [year |-> y, month |-> m, day |-> d]

IsLeap(y) == y % 4 = 0 /\ (y % 100 # 0 \/ y % 400 = 0)

DaysInMonth(y, m) ==
    IF m = 2 THEN (IF IsLeap(y) THEN 29 ELSE 28)
    ELSE IF m \in {4, 6, 9, 11} THEN 30 ELSE 31

\* a < b on dates
DateLt(a, b) ==
    \/ a.year < b.year
    \/ a.year = b.year /\ a.month < b.month
    \/ a.year = b.year /\ a.month = b.month /\ a.day < b.day

DateLe(a, b) == a = b \/ DateLt(a, b)

\* d + timedelta(days=1)
NextDay(d) ==
    IF d.day < DaysInMonth(d.year, d.month) THEN Date(d.year, d.month, d.day + 1)
    ELSE IF d.month < 12 THEN Date(d.year, d.month + 1, 1)
    ELSE Date(d.year + 1, 1, 1)

\* d - timedelta(days=1)
PrevDay(d) ==
    IF d.day > 1 THEN Date(d.year, d.month, d.day - 1)
    ELSE IF d.month > 1 THEN Date(d.year, d.month - 1, DaysInMonth(d.year, d.month - 1))
    ELSE Date(d.year - 1, 12, 31)

RECURSIVE AddDays(_, _)
\* d + timedelta(days=n), n >= 0
AddDays(d, n) == IF n = 0 THEN d ELSE AddDays(NextDay(d), n - 1)

(***************************************************************************)
(* Exact fractions, for the means pandas computes.                         *)
(***************************************************************************)
Abs(x) == IF x < 0 THEN -x ELSE x

RECURSIVE Gcd(_, _)
Gcd(a, b) == IF b = 0 THEN a ELSE Gcd(b, a % b)

\* n / d in lowest terms, d > 0
Frac(n, d) ==
    LET g == Gcd(Abs(n), d)
    IN  [num |-> n \div g, den |-> d \div g]

(***************************************************************************)
(* JSON values of the Notion API, and characters strings.                  *)
(***************************************************************************)
JNull == [t |-> "null"]
JNum(n) == [t |-> "number", v |-> n]
\* a dict that is absent: props.get(NAME, {})
EmptyDict == [t |-> "emptydict"]

\* props.get(name, {})
Get(props, name) == IF name \in DOMAIN props THEN props[name] ELSE EmptyDict

\* Python's truth value of a property object or JSON value
Truthy(x) ==
    IF x.t \in {"null", "emptydict"} THEN FALSE
    ELSE IF x.t = "number" THEN x.v # 0
    ELSE IF x.t = "list" THEN Len(x.items) > 0
    ELSE TRUE

\* a JSON object: a non-empty dict
IsObject(x) == x.t = "object"

(***************************************************************************)
(* Character strings (a month title) as sequences of one-character         *)
(* strings, and datetime.strptime(month_str, "%Y-%b").                     *)
(***************************************************************************)
Digits == <<"0", "1", "2", "3", "4", "5", "6", "7", "8", "9">>
UpperCase == <<"A", "B", "C", "D", "E", "F", "G", "J", "L", "M", "N", "O", "P", "R", "S", "T", "U", "V", "Y">>
LowerCase == <<"a", "b", "c", "d", "e", "f", "g", "j", "l", "m", "n", "o", "p", "r", "s", "t", "u", "v", "y">>
\* the abbreviated month names of the C locale, lower case (_strptime.LocaleTime.a_month)
MonthAbbr ==
    << <<"j", "a", "n">>, <<"f", "e", "b">>, <<"m", "a", "r">>, <<"a", "p", "r">>,
       <<"m", "a", "y">>, <<"j", "u", "n">>, <<"j", "u", "l">>, <<"a", "u", "g">>,
       <<"s", "e", "p">>, <<"o", "c", "t">>, <<"n", "o", "v">>, <<"d", "e", "c">> >>

IsDigit(c) == \E i \in 1..10 : Digits[i] = c
DigitVal(c) == (CHOOSE i \in 1..10 : Digits[i] = c) - 1
\* str.lower() of one character
Lower(c) ==
    IF \E i \in 1..Len(UpperCase) : UpperCase[i] = c
    THEN LowerCase[CHOOSE i \in 1..Len(UpperCase) : UpperCase[i] = c]
    ELSE c

\* the failure of strptime and of the datetime constructor
\* the outcome of a call: the value returned, or the exception raised
Return(value) == [raised |-> FALSE, value |-> value]
Raise(name) == [raised |-> TRUE, value |-> name]
ValueError == Raise("ValueError")
KeyError == Raise("KeyError")
Raised(outcome) == outcome.raised

\* datetime.strptime(s, "%Y-%b"): four digits, a hyphen, a month abbreviation
\* in any letter case, and nothing after it; year 0 is no datetime year.
\* The result is the first day of the month.
strptime(s) ==
    IF /\ Len(s) = 8
       /\ \A i \in 1..4 : IsDigit(s[i])
       /\ s[5] = "-"
       /\ \E m \in 1..12 : MonthAbbr[m] = <<Lower(s[6]), Lower(s[7]), Lower(s[8])>>
    THEN LET y == DigitVal(s[1]) * 1000 + DigitVal(s[2]) * 100 + DigitVal(s[3]) * 10 + DigitVal(s[4])
             m == CHOOSE k \in 1..12 : MonthAbbr[k] = <<Lower(s[6]), Lower(s[7]), Lower(s[8])>>
         IN  IF y >= 1 THEN Return(Date(y, m, 1)) ELSE ValueError
    ELSE ValueError

\* pd.to_datetime of an ISO date string, given by its three numeric fields
to_datetime(date_str) == Date(date_str[1], date_str[2], date_str[3])

(***************************************************************************)
(* process_raw_data: the activity normalizer.                              *)
(***************************************************************************)
\* (mutant) a page without a usable minutes field is skipped too
RawRowStrict(page) ==
    LET props == page.properties
        date_prop == Get(props, PROPERTY_DATE)
        time_prop == Get(props, PROPERTY_TIME)
    IN  IF ~Truthy(date_prop) \/ date_prop.type # "date" \/ ~Truthy(date_prop.date)
        THEN << >>
        ELSE IF ~Truthy(time_prop) \/ time_prop.type # "number" THEN << >>
        ELSE << [Date |-> date_prop.date.start,
                 LearningTime |-> IF Truthy(time_prop.number) THEN time_prop.number.v ELSE 0] >>

\* the row appended for one page, or << >> when the page is skipped (continue)
RawRow(page) ==
    LET props == page.properties
        date_prop == Get(props, PROPERTY_DATE)
        time_prop == Get(props, PROPERTY_TIME)
    IN  IF ~Truthy(date_prop) \/ date_prop.type # "date" \/ ~Truthy(date_prop.date)
        THEN << >>
        ELSE LET date_str == date_prop.date.start
                 learning_time ==
                     IF ~Truthy(time_prop) \/ time_prop.type # "number" THEN 0
                     ELSE IF Truthy(time_prop.number) THEN time_prop.number.v ELSE 0
             IN  << [Date |-> date_str, LearningTime |-> learning_time] >>

RECURSIVE RawLoop(_, _, _)
\* the for loop of process_raw_data, from page i on, data collected so far
RawLoop(pages, i, data) ==
    IF i > Len(pages) THEN data
    ELSE RawLoop(pages, i + 1, data \o RawRow(pages[i]))

process_raw_data(pages) ==
    LET data == RawLoop(pages, 1, << >>)
    IN  [i \in 1..Len(data) |->
            [Date |-> to_datetime(data[i].Date), LearningTime |-> data[i].LearningTime]]

(***************************************************************************)
(* process_goal_data: the goal normalizer.  Its result is the DataFrame,   *)
(* or the exception that leaves the function.                              *)
(***************************************************************************)
\* one iteration of the loop: it returns << >> (continue) or <<row>>, or raises
GoalRow(page) ==
    LET props == page.properties
        month_prop == Get(props, PROPERTY_MONTH_TITLE)
        goal_prop == Get(props, PROPERTY_GOAL)
    IN  IF ~Truthy(month_prop) THEN Return(<< >>)
        ELSE IF "title" \notin DOMAIN month_prop THEN KeyError
        ELSE IF ~Truthy(month_prop.title) THEN Return(<< >>)
        ELSE IF "text" \notin DOMAIN month_prop.title.items[1] THEN KeyError
        ELSE LET month_str == month_prop.title.items[1].text.content
                 goal_time ==
                     IF ~Truthy(goal_prop) \/ goal_prop.type # "number" THEN 0
                     ELSE (IF Truthy(goal_prop.number) THEN goal_prop.number.v ELSE 0)
                              * MINUTES_PER_HOUR
                 date_obj == strptime(month_str)
             IN  IF Raised(date_obj) THEN Return(<< >>)
                 ELSE Return(<< [Month |-> date_obj.value, GoalTime |-> goal_time] >>)

RECURSIVE GoalLoop(_, _, _)
GoalLoop(pages, i, data) ==
    IF i > Len(pages) THEN Return(data)
    ELSE LET row == GoalRow(pages[i])
         IN  IF Raised(row) THEN row
             ELSE GoalLoop(pages, i + 1, data \o row.value)

process_goal_data(pages) == GoalLoop(pages, 1, << >>)

(***************************************************************************)
(* analyze_data: the series builder.                                       *)
(***************************************************************************)
RECURSIVE InsertByDate(_, _)
\* row put into a frame sorted by Date, after the rows that are not later
InsertByDate(sorted, row) ==
    IF sorted = << >> THEN << row >>
    ELSE IF DateLt(row.Date, Head(sorted).Date) THEN << row >> \o sorted
    ELSE << Head(sorted) >> \o InsertByDate(Tail(sorted), row)

RECURSIVE SortFrom(_, _, _)
SortFrom(frame, i, sorted) ==
    IF i > Len(frame) THEN sorted
    ELSE SortFrom(frame, i + 1, InsertByDate(sorted, frame[i]))

\* df.sort_values("Date")
sort_values(frame) == SortFrom(frame, 1, << >>)

\* (mutant) no gap filling: only the observed end days
date_range_ends(first, last) == IF first = last THEN << first >> ELSE << first, last >>

RECURSIVE date_range(_, _)
\* the daily bins of resample("D"): every day from first to last
date_range(first, last) ==
    IF DateLt(last, first) THEN << >>
    ELSE << first >> \o date_range(NextDay(first), last)

RECURSIVE SumOn(_, _, _)
\* the sum of LearningTime over the rows of frame, from row i on, dated d
SumOn(frame, i, d) ==
    IF i > Len(frame) THEN 0
    ELSE (IF frame[i].Date = d THEN frame[i].LearningTime ELSE 0) + SumOn(frame, i + 1, d)

\* (mutant) the aggregate .last(): the minutes of the last row dated d
BinLast(frame, d) ==
    LET rows == {i \in 1..Len(frame) : frame[i].Date = d}
    IN  IF rows = {} THEN 0
        ELSE frame[CHOOSE i \in rows : \A j \in rows : j <= i].LearningTime

\* the aggregate of one daily bin: .sum()
BinSum(frame, d) == SumOn(frame, 1, d)

\* df.set_index("Date").resample("D").sum().fillna(0).reset_index()
resample_sum(frame) ==
    LET n == Len(frame)
        lo == CHOOSE a \in {frame[i].Date : i \in 1..n} :
                  \A b \in {frame[i].Date : i \in 1..n} : DateLe(a, b)
        hi == CHOOSE a \in {frame[i].Date : i \in 1..n} :
                  \A b \in {frame[i].Date : i \in 1..n} : DateLe(b, a)
        days == date_range(lo, hi)
    IN  [k \in 1..Len(days) |-> [Date |-> days[k], LearningTime |-> BinSum(frame, days[k])]]

RECURSIVE CumFrom(_, _, _, _)
CumFrom(values, i, acc, out) ==
    IF i > Len(values) THEN out
    ELSE CumFrom(values, i + 1, acc + values[i], Append(out, acc + values[i]))

\* (mutant) a running sum that leaves the first value out
cumsum_from_second(values) == CumFrom(values, 2, 0, << 0 >>)

\* Series.cumsum()
cumsum(values) == CumFrom(values, 1, 0, << >>)

RECURSIVE SumRange(_, _, _)
\* values[lo] + ... + values[hi]
SumRange(values, lo, hi) ==
    IF lo > hi THEN 0 ELSE values[hi] + SumRange(values, lo, hi - 1)

\* (mutant) an expanding window: every mean starts at the first day
WindowStartExpanding(i) == 1

\* the first index of the rolling window that ends at index i (1-based)
WindowStart(i) == IF i - WINDOW + 1 > 1 THEN i - WINDOW + 1 ELSE 1

\* Series.rolling(window=60, min_periods=1).mean()
rolling_mean(values) ==
    [i \in 1..Len(values) |->
        Frac(SumRange(values, WindowStart(i), i), i - WindowStart(i) + 1)]

\* steps 1 and 2 of analyze_data: sort, then resample to days
daily_frame(frame) == resample_sum(sort_values(frame))

analyze_data(frame) ==
    IF frame = << >> THEN frame
    ELSE LET df_daily == daily_frame(frame)
             minutes == [i \in 1..Len(df_daily) |-> df_daily[i].LearningTime]
             cum == cumsum(minutes)
             avg == rolling_mean(minutes)
         IN  [i \in 1..Len(df_daily) |->
                 [Date |-> df_daily[i].Date,
                  LearningTime |-> df_daily[i].LearningTime,
                  Cumulative_Time |-> cum[i],
                  Moving_Avg_60d |-> avg[i]]]

(***************************************************************************)
(* The month view of main(): slice, month cumulative, goal, target line,   *)
(* moving-average domain.                                                  *)
(***************************************************************************)
FracInt(n) == Frac(n, 1)
FracSub(a, b) == Frac(a.num * b.den - b.num * a.den, a.den * b.den)
FracAdd(a, b) == Frac(a.num * b.den + b.num * a.den, a.den * b.den)
FracMul(a, b) == Frac(a.num * b.num, a.den * b.den)
FracLt(a, b) == a.num * b.den < b.num * a.den

\* (mutant) December rolls into January of the same year
next_month_start_same_year(cms) ==
    IF cms.month = 12 THEN Date(cms.year, 1, cms.day)
    ELSE Date(cms.year, cms.month + 1, cms.day)

\* the first day of the month after the month that starts at cms
next_month_start(cms) ==
    IF cms.month = 12 THEN Date(cms.year + 1, 1, cms.day)
    ELSE Date(cms.year, cms.month + 1, cms.day)

\* (mutant) a filter without the lower end: everything before the next month
month_filter_no_start(frame, cms) ==
    LET nms == next_month_start(cms)
        BeforeNext(row) == DateLt(row.Date, nms)
    IN  SelectSeq(frame, BeforeNext)

\* df[(df["Date"] >= current_month_start) & (df["Date"] < next_month_start)]
month_filter(frame, cms) ==
    LET nms == next_month_start(cms)
        InMonth(row) == DateLe(cms, row.Date) /\ DateLt(row.Date, nms)
    IN  SelectSeq(frame, InMonth)

\* (mutant) the month column taken from the full-history running sum
monthly_from_history(slice) == [i \in 1..Len(slice) |-> slice[i].Cumulative_Time]

\* the Monthly_Cumulative column of a non-empty slice
monthly_cumsum(slice) == cumsum([i \in 1..Len(slice) |-> slice[i].LearningTime])

\* df_month: the slice with its Monthly_Cumulative column; an empty slice gives
\* the empty frame
month_view(frame, cms) ==
    LET slice == month_filter(frame, cms)
        mc == monthly_cumsum(slice)
    IN  [i \in 1..Len(slice) |->
            [Date |-> slice[i].Date,
             LearningTime |-> slice[i].LearningTime,
             Cumulative_Time |-> slice[i].Cumulative_Time,
             Moving_Avg_60d |-> slice[i].Moving_Avg_60d,
             Monthly_Cumulative |-> mc[i]]]

\* current_goal_minutes: GoalTime of the first goal row of the month, else 0
\* a lookup that takes the last matching row: current_goal_row.iloc[-1]
goal_lookup_last(goals, cms) ==
    LET IsMonth(row) == row.Month = cms
        current_goal_row == SelectSeq(goals, IsMonth)
    IN  IF goals # << >> /\ current_goal_row # << >>
        THEN current_goal_row[Len(current_goal_row)].GoalTime
        ELSE 0

goal_lookup(goals, cms) ==
    LET IsMonth(row) == row.Month = cms
        current_goal_row == SelectSeq(goals, IsMonth)
    IN  IF goals # << >> /\ current_goal_row # << >> THEN current_goal_row[1].GoalTime
        ELSE 0

\* target_data: one linear target per day of the month when the goal is positive
\* a target line that takes every month to have 30 days
target_line_30_days(goal_minutes, cms) ==
    IF goal_minutes > 0
    THEN [day \in 1..30 |->
             [Date |-> Date(cms.year, cms.month, day),
              Target_Cumulative |-> Frac(goal_minutes * day, 30)]]
    ELSE << >>

target_line(goal_minutes, cms) ==
    IF goal_minutes > 0
    THEN LET days_in_month == DaysInMonth(cms.year, cms.month)
         IN  [day \in 1..days_in_month |->
                 [Date |-> Date(cms.year, cms.month, day),
                  Target_Cumulative |-> Frac(goal_minutes * day, days_in_month)]]
    ELSE << >>

\* the padding of the moving-average domain: 20 % of the spread, 20 when that is 0
ma_padding(min_ma, max_ma) ==
    LET padding == FracMul(FracSub(max_ma, min_ma), Frac(2, 10))
    IN  IF padding = FracInt(0) THEN FracInt(20) ELSE padding

\* the low end of the domain: max(0, min_ma - padding)
ma_low(min_ma, padding) ==
    LET low == FracSub(min_ma, padding)
    IN  IF FracLt(FracInt(0), low) THEN low ELSE FracInt(0)

\* ma_domain of a month frame
ma_domain_of(view) ==
    LET ma_series == {view[i].Moving_Avg_60d : i \in 1..Len(view)}
    IN  IF ma_series # {}
        THEN LET min_ma == CHOOSE a \in ma_series : \A b \in ma_series : ~FracLt(b, a)
                 max_ma == CHOOSE a \in ma_series : \A b \in ma_series : ~FracLt(a, b)
                 padding == ma_padding(min_ma, max_ma)
             IN  << ma_low(min_ma, padding), FracAdd(max_ma, padding) >>
        ELSE << FracInt(0), FracInt(300) >>

(***************************************************************************)
(* The records the two Notion databases may hold.                          *)
(***************************************************************************)
\* a property that is not in the page
Absent == [t |-> "absent"]
DateProp(date_str) ==
    [t |-> "object", type |-> "date", date |-> [t |-> "object", start |-> date_str]]
\* a date property that is not filled in
EmptyDateProp == [t |-> "object", type |-> "date", date |-> JNull]
\* a property of another kind under the expected name
RichTextProp == [t |-> "object", type |-> "rich_text", rich_text |-> [t |-> "list", items |-> << >>]]
NumberProp(number) == [t |-> "object", type |-> "number", number |-> number]
TextItem(content) == [t |-> "object", type |-> "text", text |-> [t |-> "object", content |-> content]]
\* a title whose first item is a page mention: it has no "text" key
MentionItem == [t |-> "object", type |-> "mention", mention |-> [t |-> "object"]]
TitleProp(items) == [t |-> "object", type |-> "title", title |-> [t |-> "list", items |-> items]]

NoProps == [name \in {} |-> Absent]
Prop(name, value) == IF value = Absent THEN NoProps ELSE name :> value
ActivityPage(date_prop, time_prop) ==
    [properties |-> Prop(PROPERTY_DATE, date_prop) @@ Prop(PROPERTY_TIME, time_prop)]
GoalPage(month_prop, goal_prop) ==
    [properties |-> Prop(PROPERTY_MONTH_TITLE, month_prop) @@ Prop(PROPERTY_GOAL, goal_prop)]

Dec31 == <<2023, 12, 31>>
Jan01 == <<2024, 1, 1>>
Mar01 == <<2024, 3, 1>>

ActivityRecords ==
    { ActivityPage(Absent, NumberProp(JNum(30))),
      ActivityPage(RichTextProp, NumberProp(JNum(30))),
      ActivityPage(EmptyDateProp, NumberProp(JNum(30))),
      ActivityPage(DateProp(Dec31), Absent),
      ActivityPage(DateProp(Jan01), RichTextProp),
      ActivityPage(DateProp(Mar01), NumberProp(JNull)),
      ActivityPage(DateProp(Dec31), NumberProp(JNum(30))),
      ActivityPage(DateProp(Jan01), NumberProp(JNum(20))),
      ActivityPage(DateProp(Jan01), NumberProp(JNum(-5))) }

\* the activity records of the runs that are about the goals
ActivitySample ==
    { ActivityPage(DateProp(Dec31), NumberProp(JNum(30))),
      ActivityPage(DateProp(Mar01), NumberProp(JNum(10))) }

Title2024Feb == <<"2", "0", "2", "4", "-", "F", "e", "b">>
Title2024feb == <<"2", "0", "2", "4", "-", "f", "e", "b">>
Title2023Dec == <<"2", "0", "2", "3", "-", "D", "e", "c">>
Title2024FebDot == <<"2", "0", "2", "4", "-", "F", "e", "b", ".">>

GoalRecords ==
    { GoalPage(Absent, NumberProp(JNum(10))),
      GoalPage(TitleProp(<< >>), NumberProp(JNum(10))),
      GoalPage(RichTextProp, NumberProp(JNum(10))),
      GoalPage(TitleProp(<< MentionItem >>), NumberProp(JNum(10))),
      GoalPage(TitleProp(<< TextItem(Title2024FebDot) >>), NumberProp(JNum(10))),
      GoalPage(TitleProp(<< TextItem(Title2024Feb) >>), Absent),
      GoalPage(TitleProp(<< TextItem(Title2024Feb) >>), RichTextProp),
      GoalPage(TitleProp(<< TextItem(Title2024Feb) >>), NumberProp(JNull)),
      GoalPage(TitleProp(<< TextItem(Title2024Feb) >>), NumberProp(JNum(10))),
      GoalPage(TitleProp(<< TextItem(Title2024feb) >>), NumberProp(JNum(20))),
      GoalPage(TitleProp(<< TextItem(Title2023Dec) >>), NumberProp(JNum(5))) }

\* the goal records of the runs that are about the activity history
GoalSample == { GoalPage(TitleProp(<< TextItem(Title2024Feb) >>), NumberProp(JNum(10))) }

\* the dates datetime.now() gives when a session starts
NowDates == { Date(2024, 1, 15), Date(2024, 2, 29) }
\* the months the navigation buttons are followed to
MinMonth == Date(2023, 12, 1)
MaxMonth == Date(2024, 3, 1)

(***************************************************************************)
(* The state.                                                              *)
(***************************************************************************)
VARIABLES
    pc,                 \* where the script run is
    results,            \* fetch_data: the pages' records collected so far
    has_more,           \* fetch_data: the loop condition
    start_cursor,       \* fetch_data: the cursor of the next request
    goal_results,       \* fetch_goal_data: the same three locals
    goal_has_more,
    goal_start_cursor,
    raw_df,             \* main: what fetch_data returned
    goal_df,            \* main: what fetch_goal_data returned
    exception,          \* the exception that ended the script run, if any
    df,                 \* main: the daily series
    current_month,      \* st.session_state.current_month
    df_month,           \* main: the month frame
    current_goal_minutes, \* main: the goal resolved for the selected month
    df_target,          \* main: the target line
    ma_domain           \* main: the moving-average axis domain

vars == << pc, results, has_more, start_cursor, goal_results, goal_has_more,
           goal_start_cursor, raw_df, goal_df, exception, df, current_month,
           df_month, current_goal_minutes, df_target, ma_domain >>

None == [t |-> "null"]
\* the next_cursor of a response with has_more: it names the position reached
Cursor(n) == [t |-> "string", v |-> n]

\* the start_cursor of the request body: sent only when the cursor is truthy
request_body(cursor) == IF Truthy(cursor) THEN cursor ELSE None
\* the position in the database a query with this start_cursor is answered from
Position(cursor) == IF cursor = None THEN 0 ELSE cursor.v

RECURSIVE SeqsUpTo(_, _)
\* the sequences over S of length at most n
SeqsUpTo(S, n) ==
    IF n <= 0 THEN { << >> }
    ELSE LET shorter == SeqsUpTo(S, n - 1)
         IN  shorter \cup { Append(q, x) : q \in shorter, x \in S }

Init ==
    /\ pc = "fetch_data"
    /\ results = << >>
    /\ has_more = TRUE
    /\ start_cursor = None
    /\ goal_results = << >>
    /\ goal_has_more = TRUE
    /\ goal_start_cursor = None
    /\ raw_df = << >>
    /\ goal_df = << >>
    /\ exception = "none"
    /\ df = << >>
    /\ current_month = None
    /\ df_month = << >>
    /\ current_goal_minutes = 0
    /\ df_target = << >>
    /\ ma_domain = << >>

view_vars == << df, current_month, df_month, current_goal_minutes, df_target, ma_domain >>
fetch_vars == << results, has_more, start_cursor, raw_df >>
goal_vars == << goal_results, goal_has_more, goal_start_cursor, goal_df >>

(***************************************************************************)
(* fetch_data and fetch_goal_data: one action per iteration of the loop.   *)
(***************************************************************************)
\* One request answered: the query is answered from the position its
\* start_cursor names, the page is appended, the response's next_cursor names
\* the position after the page; when the response has no more pages the loop
\* ends and the function returns process_raw_data(results).
FetchPage(Records, max) ==
    /\ pc = "fetch_data"
    /\ has_more
    /\ \E page \in SeqsUpTo(Records, IF Len(results) < max THEN 1 ELSE 0), more \in BOOLEAN :
          /\ results' = results \o page
          /\ has_more' = more
          /\ start_cursor' =
                 IF more THEN Cursor(Position(request_body(start_cursor)) + Len(page)) ELSE None
          /\ IF more
             THEN /\ raw_df' = raw_df
                  /\ pc' = pc
             ELSE /\ raw_df' = process_raw_data(results')
                  /\ pc' = "fetch_goal_data"
    /\ UNCHANGED << goal_vars, exception, view_vars >>

\* a failure that leaves the loop and keeps the pages fetched so far: break
\* in place of return pd.DataFrame()
FetchFailKeepsPages ==
    /\ pc = "fetch_data"
    /\ has_more
    /\ raw_df' = process_raw_data(results)
    /\ pc' = "fetch_goal_data"
    /\ UNCHANGED << results, has_more, start_cursor, goal_vars, exception, view_vars >>

\* A request fails: st.error, and the function returns the empty DataFrame.
FetchFail ==
    /\ pc = "fetch_data"
    /\ has_more
    /\ raw_df' = << >>
    /\ pc' = "fetch_goal_data"
    /\ UNCHANGED << results, has_more, start_cursor, goal_vars, exception, view_vars >>

\* The same loop on the goal database; process_goal_data is called outside the
\* try, so an exception of it leaves fetch_goal_data and main.
FetchGoalPage(Records, max) ==
    /\ pc = "fetch_goal_data"
    /\ goal_has_more
    /\ \E page \in SeqsUpTo(Records, IF Len(goal_results) < max THEN 1 ELSE 0), more \in BOOLEAN :
          /\ goal_results' = goal_results \o page
          /\ goal_has_more' = more
          /\ goal_start_cursor' =
                 IF more THEN Cursor(Position(request_body(goal_start_cursor)) + Len(page))
                 ELSE None
          /\ IF more
             THEN /\ goal_df' = goal_df
                  /\ pc' = pc
                  /\ exception' = exception
             ELSE LET frame == process_goal_data(goal_results')
                  IN  IF Raised(frame)
                      THEN /\ goal_df' = goal_df
                           /\ exception' = frame.value
                           /\ pc' = "crashed"
                      ELSE /\ goal_df' = frame.value
                           /\ exception' = exception
                           /\ pc' = "main"
    /\ UNCHANGED << fetch_vars, view_vars >>

FetchGoalFail ==
    /\ pc = "fetch_goal_data"
    /\ goal_has_more
    /\ goal_df' = << >>
    /\ pc' = "main"
    /\ UNCHANGED << goal_results, goal_has_more, goal_start_cursor, fetch_vars,
                    exception, view_vars >>

(***************************************************************************)
(* main(): the rest of a script run, for the month that is selected.       *)
(***************************************************************************)
\* datetime.now().replace(day=1, hour=0, minute=0, second=0, microsecond=0)
first_of_month(now) == Date(now.year, now.month, 1)
\* the "<" button: (curr - timedelta(days=1)).replace(day=1)
prev_month(curr) == first_of_month(PrevDay(curr))
\* the ">" button: (curr + timedelta(days=32)).replace(day=1)
\* a step of 28 days: (curr + timedelta(days=28)).replace(day=1)
next_month_28_days(curr) == first_of_month(AddDays(curr, 28))

next_month(curr) == first_of_month(AddDays(curr, 32))

\* the script from analyze_data on, with current_month_start the selection
Compose(current_month_start) ==
    /\ df' = analyze_data(raw_df)
    /\ current_month' = current_month_start
    /\ df_month' = month_view(df', current_month_start)
    /\ current_goal_minutes' = goal_lookup(goal_df, current_month_start)
    /\ df_target' = target_line(current_goal_minutes', current_month_start)
    /\ ma_domain' = ma_domain_of(df_month')

\* a first run without the check of raw_df.empty: the view is always composed
RenderWithoutStop ==
    /\ pc = "main"
    /\ pc' = "view"
    /\ \E now \in NowDates : Compose(first_of_month(now))
    /\ UNCHANGED << fetch_vars, goal_vars, exception >>

\* The first run of a session, both fetches done: stop on an empty raw_df,
\* else build the series and show the month of today.
Render ==
    /\ pc = "main"
    /\ IF raw_df = << >>
       THEN /\ pc' = "stopped"
            /\ UNCHANGED view_vars
       ELSE /\ pc' = "view"
            /\ \E now \in NowDates : Compose(first_of_month(now))
    /\ UNCHANGED << fetch_vars, goal_vars, exception >>

\* The "<" button: the selection moves, st.rerun() runs the script again on
\* the cached fetch results.
Previous ==
    /\ pc = "view"
    /\ DateLe(MinMonth, prev_month(current_month))
    /\ Compose(prev_month(current_month))
    /\ UNCHANGED << pc, fetch_vars, goal_vars, exception >>

\* The ">" button.
NextMonth ==
    /\ pc = "view"
    /\ DateLe(next_month(current_month), MaxMonth)
    /\ Compose(next_month(current_month))
    /\ UNCHANGED << pc, fetch_vars, goal_vars, exception >>

(***************************************************************************)
(* Specifications.  Spec draws the activity history from ActivityRecords   *)
(* and the goals from GoalSample; SpecGoals draws the goals from           *)
(* GoalRecords and the history from ActivitySample.                        *)
(***************************************************************************)
Next ==
    \/ FetchPage(ActivityRecords, MaxRecords)
    \/ FetchFail
    \/ FetchGoalPage(GoalSample, 1)
    \/ FetchGoalFail
    \/ Render
    \/ Previous
    \/ NextMonth

Spec == Init /\ [][Next]_vars

NextGoals ==
    \/ FetchPage(ActivitySample, 1)
    \/ FetchFail
    \/ FetchGoalPage(GoalRecords, MaxGoals)
    \/ FetchGoalFail
    \/ Render
    \/ Previous
    \/ NextMonth

SpecGoals == Init /\ [][NextGoals]_vars

(***************************************************************************)
(* What the claims are stated with.  These definitions do not model code:  *)
(* they say, independently of the loops above, what a result should be.    *)
(***************************************************************************)
\* the activity fetch loop ended on a last page, so raw_df is process_raw_data(results)
ActivityNormalized == pc # "fetch_data" /\ ~has_more
\* the goal fetch loop ended on a last page
GoalsNormalized == pc \notin {"fetch_data", "fetch_goal_data"} /\ ~goal_has_more
\* a script run has composed a month view
Viewing == pc = "view"

\* the number of days from 0001-01-01 to d, as date.toordinal() counts them
DaysBeforeYear(y) == (y - 1) * 365 + (y - 1) \div 4 - (y - 1) \div 100 + (y - 1) \div 400
RECURSIVE DaysBeforeMonth(_, _)
DaysBeforeMonth(y, m) == IF m = 1 THEN 0 ELSE DaysBeforeMonth(y, m - 1) + DaysInMonth(y, m - 1)
Ordinal(d) == DaysBeforeYear(d.year) + DaysBeforeMonth(d.year, d.month) + d.day

RECURSIVE TotalOf(_, _)
\* the sum of f[i] over the indices i of the finite set S
TotalOf(f, S) ==
    IF S = {} THEN 0
    ELSE LET i == CHOOSE j \in S : TRUE IN f[i] + TotalOf(f, S \ {i})

\* the minutes of all observations of frame dated d
ObservedOn(frame, d) ==
    TotalOf([i \in 1..Len(frame) |-> frame[i].LearningTime],
            {i \in 1..Len(frame) : frame[i].Date = d})

\* the rearrangements of a frame
Reorderings(frame) ==
    { [i \in 1..Len(frame) |-> frame[f[i]]] : f \in Permutations(1..Len(frame)) }

\* the dates and minutes of a series, without its derived columns
DailyMinutes(series) ==
    [i \in 1..Len(series) |-> [Date |-> series[i].Date, LearningTime |-> series[i].LearningTime]]

ObservedDates == {raw_df[i].Date : i \in 1..Len(raw_df)}
FirstObserved == CHOOSE a \in ObservedDates : \A b \in ObservedDates : Ordinal(a) <= Ordinal(b)
LastObserved == CHOOSE a \in ObservedDates : \A b \in ObservedDates : Ordinal(b) <= Ordinal(a)

\* C1: every day from the first to the last observed date has one point of the
\* daily series, whose minutes are the sum of the minutes of the observations of
\* that day (0 when there is none), and the observations in any other order give
\* the same days and minutes.
C1_DailySums ==
    Viewing =>
        /\ \A k \in 0..(Ordinal(LastObserved) - Ordinal(FirstObserved)) :
              /\ k + 1 <= Len(df)
              /\ Ordinal(df[k + 1].Date) = Ordinal(FirstObserved) + k
              /\ df[k + 1].LearningTime = ObservedOn(raw_df, df[k + 1].Date)
        /\ \A other \in Reorderings(raw_df) : daily_frame(other) = DailyMinutes(df)

\* C1 witness: two observations of one day, both with minutes, are summed into
\* that day's point.
C1_Witness ==
    /\ Viewing
    /\ \E i, j \in 1..Len(raw_df) :
          /\ i < j
          /\ raw_df[i].Date = raw_df[j].Date
          /\ raw_df[i].LearningTime # 0
          /\ raw_df[j].LearningTime # 0
          /\ raw_df[i].LearningTime # raw_df[j].LearningTime
          /\ df[1].LearningTime = raw_df[i].LearningTime + raw_df[j].LearningTime

\* C2: the dates of the daily series go up by exactly one day from point to
\* point, from the earliest to the latest observed date.
C2_ContiguousDates ==
    Viewing =>
        /\ Len(df) >= 1
        /\ df[1].Date = FirstObserved
        /\ df[Len(df)].Date = LastObserved
        /\ \A i \in 1..(Len(df) - 1) : Ordinal(df[i + 1].Date) = Ordinal(df[i].Date) + 1

\* C2 witness: a series that crosses the end of a year and the 29th of February,
\* built from two observations with a gap between them.
C2_Witness ==
    /\ Viewing
    /\ Len(raw_df) = 2
    /\ df[1].Date = Date(2023, 12, 31)
    /\ Len(df) = 62
    /\ df[61].Date = Date(2024, 2, 29)
    /\ df[62].Date = Date(2024, 3, 1)

RECURSIVE MinutesOver(_, _, _)
\* the sum of the minutes of the points lo..hi of a series
MinutesOver(series, lo, hi) ==
    IF lo > hi THEN 0 ELSE series[lo].LearningTime + MinutesOver(series, lo + 1, hi)

\* the sum of the minutes of the points 1..i of a series
MinutesUpTo(series, i) == MinutesOver(series, 1, i)

\* C3 as the spec states it: cumulative_total is the running sum of minutes and
\* never goes down along the series.
C3_Original ==
    Viewing =>
        /\ \A i \in 1..Len(df) : df[i].Cumulative_Time = MinutesUpTo(df, i)
        /\ \A i \in 1..(Len(df) - 1) : df[i].Cumulative_Time <= df[i + 1].Cumulative_Time

\* C3 amended: cumulative_total is the running sum of minutes (the first point
\* has its own minutes, every later point the total of the point before plus its
\* own minutes, the last point the sum of all minutes); from one point to the
\* next it goes down exactly when the next day's minutes are negative, so it is
\* non-decreasing over every stretch of days without negative minutes.
C3_RunningSum ==
    Viewing =>
        /\ df[1].Cumulative_Time = df[1].LearningTime
        /\ \A i \in 1..(Len(df) - 1) :
              /\ df[i + 1].Cumulative_Time = df[i].Cumulative_Time + df[i + 1].LearningTime
              /\ (df[i + 1].Cumulative_Time < df[i].Cumulative_Time)
                     <=> (df[i + 1].LearningTime < 0)
        /\ df[Len(df)].Cumulative_Time = MinutesUpTo(df, Len(df))

\* C3 witness: a series of several days with minutes on more than one of them.
C3_Witness ==
    /\ Viewing
    /\ Len(df) >= 2
    /\ df[1].LearningTime > 0
    /\ df[Len(df)].LearningTime > 0
    /\ df[Len(df)].Cumulative_Time = df[1].LearningTime + df[Len(df)].LearningTime

\* C4: the moving average of point i is the mean of the minutes of the points
\* max(1, i-59)..i of the whole series (1-based), it is there for every point,
\* and the month view shows these values unchanged.
C4_MovingAverage ==
    Viewing =>
        /\ \A i \in 1..Len(df) :
              LET lo == IF i - 59 > 1 THEN i - 59 ELSE 1
                  n == i - lo + 1
                  avg == df[i].Moving_Avg_60d
              IN  avg.den > 0 /\ avg.num * n = avg.den * MinutesOver(df, lo, i)
        /\ \A k \in 1..Len(df_month) :
              \E i \in 1..Len(df) :
                  /\ df[i].Date = df_month[k].Date
                  /\ df[i].Moving_Avg_60d = df_month[k].Moving_Avg_60d

\* C4 witness: the month view shows the 62nd day of a history that began with
\* minutes on its first day; those minutes have left the window of 60 days.
C4_Witness ==
    /\ Viewing
    /\ Len(df) = 62
    /\ df[1].LearningTime > 0
    /\ Len(df_month) = 1
    /\ df_month[1].Date = df[62].Date
    /\ df_month[1].Moving_Avg_60d = Frac(df[62].LearningTime, 60)

\* the date field of a raw activity record can be put on the timeline
UsableDate(page) ==
    /\ PROPERTY_DATE \in DOMAIN page.properties
    /\ page.properties[PROPERTY_DATE].type = "date"
    /\ page.properties[PROPERTY_DATE].date # JNull
\* a number field under name that holds a number
HoldsNumber(page, name) ==
    /\ name \in DOMAIN page.properties
    /\ page.properties[name].type = "number"
    /\ page.properties[name].number # JNull
NumberOr0(page, name) ==
    IF HoldsNumber(page, name) THEN page.properties[name].number.v ELSE 0

\* C5: the observations are the records with a usable date, in input order, one
\* for each, with the number of the minutes field or 0 for its minutes.
C5_ActivityNormalizer ==
    ActivityNormalized =>
        LET kept == SelectSeq(results, UsableDate)
        IN  /\ Len(raw_df) = Cardinality({i \in 1..Len(results) : UsableDate(results[i])})
            /\ raw_df = [k \in 1..Len(kept) |->
                            [Date |-> to_datetime(kept[k].properties[PROPERTY_DATE].date.start),
                             LearningTime |-> NumberOr0(kept[k], PROPERTY_TIME)]]

\* C5 witness: a batch of a record without a usable date and a dated record
\* without a number of minutes gives the one observation with 0 minutes.
C5_Witness ==
    /\ ActivityNormalized
    /\ Len(results) = 2
    /\ ~UsableDate(results[1])
    /\ UsableDate(results[2])
    /\ ~HoldsNumber(results[2], PROPERTY_TIME)
    /\ Len(raw_df) = 1
    /\ raw_df[1].LearningTime = 0

\* the row is a day of the calendar month that is selected
InSelectedMonth(row) ==
    row.Date.year = current_month.year /\ row.Date.month = current_month.month

\* C8: the month view holds the points of the daily series that are days of the
\* selected calendar month, all of them and in the order of the series.
C8_MonthSlice ==
    Viewing => DailyMinutes(df_month) = DailyMinutes(SelectSeq(df, InSelectedMonth))

\* C8 witness: December is selected, the series goes on into January, and the
\* view holds the December point only.
C8_Witness ==
    /\ Viewing
    /\ current_month = Date(2023, 12, 1)
    /\ Len(df) >= 2
    /\ Len(df_month) = 1
    /\ df_month[1].Date = Date(2023, 12, 31)

\* C9: the month cumulative of a point of the view is the sum of the minutes of
\* the view's points up to it.
C9_MonthlyCumulative ==
    Viewing =>
        \A k \in 1..Len(df_month) : df_month[k].Monthly_Cumulative = MinutesUpTo(df_month, k)

\* C9 witness: a month after a month with minutes; its cumulative starts again
\* from its own first day.
C9_Witness ==
    /\ Viewing
    /\ Len(df_month) >= 1
    /\ df[1].LearningTime > 0
    /\ DateLt(df[1].Date, current_month)
    /\ df_month[1].LearningTime > 0
    /\ df_month[1].Monthly_Cumulative = df_month[1].LearningTime

\* the selected month is the month of the first day of the history
FirstMonthOfHistory == InSelectedMonth(df[1])
\* the minutes of all the days of the series before the selected month
MinutesBeforeMonth ==
    MinutesUpTo(df, Cardinality({i \in 1..Len(df) : DateLt(df[i].Date, current_month)}))

\* C10 as the spec states it: in a month that is not the first month of the
\* history, the month cumulative of a point never equals its full-history
\* cumulative total.
C10_Original ==
    (Viewing /\ ~FirstMonthOfHistory) =>
        \A k \in 1..Len(df_month) : df_month[k].Monthly_Cumulative # df_month[k].Cumulative_Time

\* C10 amended: the full-history cumulative total of a point of the view is its
\* month cumulative plus the minutes of all the days before the selected month,
\* so the two are equal exactly when those earlier minutes sum to 0.
C10_CumulativeOffset ==
    Viewing =>
        \A k \in 1..Len(df_month) :
            /\ df_month[k].Cumulative_Time = df_month[k].Monthly_Cumulative + MinutesBeforeMonth
            /\ (df_month[k].Monthly_Cumulative = df_month[k].Cumulative_Time)
                   <=> (MinutesBeforeMonth = 0)

\* C10 witness: a later month of a history whose earlier days have minutes; the
\* two cumulatives of its point differ.
C10_Witness ==
    /\ Viewing
    /\ ~FirstMonthOfHistory
    /\ Len(df_month) >= 1
    /\ MinutesBeforeMonth > 0
    /\ df_month[1].Monthly_Cumulative < df_month[1].Cumulative_Time

\* the text of the month title of a raw goal record, << >> when the record has
\* no title text (no such property, not a title, an empty title, no text item)
TitleText(page) ==
    LET props == page.properties
    IN  IF /\ PROPERTY_MONTH_TITLE \in DOMAIN props
           /\ props[PROPERTY_MONTH_TITLE].type = "title"
           /\ props[PROPERTY_MONTH_TITLE].title.items # << >>
           /\ props[PROPERTY_MONTH_TITLE].title.items[1].type = "text"
        THEN props[PROPERTY_MONTH_TITLE].title.items[1].text.content
        ELSE << >>
\* the month a title text of the form YYYY-Mon names, 0 when it has not that form
MonthNamed(text) ==
    IF Len(text) = 8 /\ text[5] = "-"
    THEN LET named == {m \in 1..12 : MonthAbbr[m] = <<Lower(text[6]), Lower(text[7]), Lower(text[8])>>}
         IN  IF named = {} THEN 0 ELSE CHOOSE m \in named : TRUE
    ELSE 0
YearNamed(text) ==
    IF Len(text) = 8 /\ \A i \in 1..4 : IsDigit(text[i])
    THEN DigitVal(text[1]) * 1000 + DigitVal(text[2]) * 100 + DigitVal(text[3]) * 10 + DigitVal(text[4])
    ELSE 0
\* the raw goal record has a month title that parses as YYYY-Mon
WellFormedGoal(page) == MonthNamed(TitleText(page)) # 0 /\ YearNamed(TitleText(page)) # 0

\* C6: the goal frame has one row for each raw goal record whose month title is
\* there and parses as YYYY-Mon, in input order: the first day of that month and
\* 60 times the goal hours, 0 when the goal field holds no number.
C6_GoalNormalizer ==
    GoalsNormalized =>
        LET kept == SelectSeq(goal_results, WellFormedGoal)
        IN  goal_df = [k \in 1..Len(kept) |->
                          [Month |-> Date(YearNamed(TitleText(kept[k])), MonthNamed(TitleText(kept[k])), 1),
                           GoalTime |-> NumberOr0(kept[k], PROPERTY_GOAL) * 60]]

\* C7: no raw record makes a normalizer raise, and each normalizer returns as
\* many rows as its batch has well-formed records.
C7_NeverAborts ==
    /\ exception = "none"
    /\ pc # "crashed"
    /\ ActivityNormalized =>
           Len(raw_df) = Cardinality({i \in 1..Len(results) : UsableDate(results[i])})
    /\ GoalsNormalized =>
           Len(goal_df) = Cardinality({i \in 1..Len(goal_results) : WellFormedGoal(goal_results[i])})

(***************************************************************************)
(* The goal of the selected month                                          *)
(***************************************************************************)
\* the positions of the goal records whose month is the selected month, by
\* calendar year and month
GoalsOfMonth ==
    {k \in 1..Len(goal_df) : /\ goal_df[k].Month.year = current_month.year
                             /\ goal_df[k].Month.month = current_month.month}

\* C11: the goal used for the selected month is the goal_minutes of the first
\* goal record, in input order, whose month is the selected month by year
\* and month; later records of that month are ignored; with no such record,
\* or no goal records at all, the goal is 0.
C11_FirstGoalOfMonth ==
    Viewing =>
        IF GoalsOfMonth = {} THEN current_goal_minutes = 0
        ELSE \E k \in GoalsOfMonth :
                /\ \A j \in GoalsOfMonth : k <= j
                /\ current_goal_minutes = goal_df[k].GoalTime

\* two goal records of the selected month with different goals: the first
\* one is the goal used
C11_Witness ==
    /\ Viewing
    /\ \E j, k \in GoalsOfMonth :
          /\ j < k
          /\ goal_df[j].GoalTime # goal_df[k].GoalTime
          /\ current_goal_minutes = goal_df[j].GoalTime
          /\ current_goal_minutes > 0

(***************************************************************************)
(* The target line                                                         *)
(***************************************************************************)
\* the number of days of each month of the Gregorian year y
MonthLengths(y) ==
    << 31, IF y % 4 = 0 /\ (y % 100 # 0 \/ y % 400 = 0) THEN 29 ELSE 28,
       31, 30, 31, 30, 31, 31, 30, 31, 30, 31 >>

DaysOfSelectedMonth == MonthLengths(current_month.year)[current_month.month]

\* C12: the target sequence is non-empty exactly when the resolved goal is
\* strictly positive; it then has one point for each day d of the selected
\* month, d = 1 .. days_in_month (29 for a leap February), in date order,
\* with target = goal * d / days_in_month, so it is strictly increasing and
\* its last point is the full goal; with a zero or absent goal it is empty.
C12_TargetLine ==
    Viewing =>
        /\ df_target # << >> <=> current_goal_minutes > 0
        /\ current_goal_minutes > 0 =>
              /\ Len(df_target) = DaysOfSelectedMonth
              /\ \A d \in 1..Len(df_target) :
                    /\ df_target[d].Date.year = current_month.year
                    /\ df_target[d].Date.month = current_month.month
                    /\ df_target[d].Date.day = d
                    /\ df_target[d].Target_Cumulative.num * DaysOfSelectedMonth
                          = current_goal_minutes * d * df_target[d].Target_Cumulative.den
                    /\ df_target[d].Target_Cumulative.den > 0
              /\ \A d \in 1..(Len(df_target) - 1) :
                    FracLt(df_target[d].Target_Cumulative,
                           df_target[d + 1].Target_Cumulative)
              /\ df_target[Len(df_target)].Target_Cumulative
                    = [num |-> current_goal_minutes, den |-> 1]

\* the leap February with a goal: 29 target points, the last one the goal
C12_Witness ==
    /\ Viewing
    /\ current_month = Date(2024, 2, 1)
    /\ current_goal_minutes = 600
    /\ Len(df_target) = 29
    /\ df_target[29].Target_Cumulative = [num |-> 600, den |-> 1]

(***************************************************************************)
(* A month with no data                                                    *)
(***************************************************************************)
\* the history exists and none of its points falls in the selected month
EmptySlice == Viewing /\ df # << >> /\ df_month = << >>

\* C13 as stated: when the slice is empty (history exists, no point in the
\* selected month) the month view has an empty point sequence and an empty
\* target sequence, whatever goal records exist.
C13_Original == EmptySlice => df_month = << >> /\ df_target = << >>

\* C13, amended: when the slice is empty the month view has an empty point
\* sequence, and its target sequence depends on the goal alone: empty when
\* the resolved goal is 0, one point per day of the month otherwise.
C13_EmptyMonth ==
    /\ Viewing /\ df # << >> /\ (\A i \in 1..Len(df) : ~InSelectedMonth(df[i]))
          => df_month = << >>
    /\ EmptySlice =>
          /\ current_goal_minutes = 0 => df_target = << >>
          /\ current_goal_minutes > 0 => Len(df_target) = DaysOfSelectedMonth

\* February 2024 has a goal and no data: no points, 29 target points
C13_Witness ==
    /\ EmptySlice
    /\ current_month = Date(2024, 2, 1)
    /\ current_goal_minutes > 0
    /\ Len(df_target) = 29

(***************************************************************************)
(* No history                                                              *)
(***************************************************************************)
\* the script has run to its end on an empty observation set
RanOnNoHistory ==
    raw_df = << >> /\ pc \notin {"fetch_data", "fetch_goal_data", "main", "crashed"}

\* nothing of a month view has been produced
NoViewComposed ==
    /\ df = << >>
    /\ current_month = None
    /\ df_month = << >>
    /\ df_target = << >>
    /\ ma_domain = << >>

\* C14 as stated: on an empty observation set the series is empty and the
\* month view is still composed rather than aborted, with empty points,
\* empty targets and the display domain [0, 300].
C14_Original ==
    RanOnNoHistory =>
        /\ analyze_data(raw_df) = << >>
        /\ Viewing
        /\ df_month = << >>
        /\ df_target = << >>
        /\ ma_domain = << FracInt(0), FracInt(300) >>

\* C14, amended: on an empty observation set analyze_data returns an empty
\* series, and main stops before a month is selected: no points, no targets
\* and no display domain are produced; the domain [0, 300] is that of a view
\* of a non-empty history whose selected month has no points.
C14_NoHistory ==
    /\ raw_df = << >> => analyze_data(raw_df) = << >> /\ ~Viewing /\ NoViewComposed
    /\ RanOnNoHistory => pc = "stopped"
    /\ Viewing /\ df_month = << >> => ma_domain = << FracInt(0), FracInt(300) >>

\* a fetched batch none of whose records is usable: the run has stopped
C14_Witness ==
    /\ pc = "stopped"
    /\ ActivityNormalized
    /\ results # << >>
    /\ raw_df = << >>
    /\ NoViewComposed

(***************************************************************************)
(* The display domain of the moving average                                *)
(***************************************************************************)
\* the moving-average values of the points of the selected month
VisibleAverages == {df_month[i].Moving_Avg_60d : i \in 1..Len(df_month)}

MinVisible == CHOOSE a \in VisibleAverages : \A b \in VisibleAverages : ~FracLt(b, a)
MaxVisible == CHOOSE a \in VisibleAverages : \A b \in VisibleAverages : ~FracLt(a, b)

\* (max_v - min_v) * 0.2, replaced by 20 when it is exactly 0
Padding ==
    IF MaxVisible = MinVisible THEN FracInt(20)
    ELSE FracMul(FracSub(MaxVisible, MinVisible), Frac(1, 5))

\* the domain follows the stated formulas
DomainAsComputed ==
    IF df_month = << >> THEN ma_domain = << FracInt(0), FracInt(300) >>
    ELSE LET below == FracSub(MinVisible, Padding)
         IN  /\ ma_domain[1] = IF FracLt(below, FracInt(0)) THEN FracInt(0) ELSE below
             /\ ma_domain[2] = FracAdd(MaxVisible, Padding)

\* C15: the display domain is computed from the moving averages of the
\* sliced points only: [0, 300] when there are none; otherwise
\* padding = (max_v - min_v) * 0.2, replaced by 20 when exactly 0,
\* low = max(0, min_v - padding), high = max_v + padding, so that low < high
\* for every non-empty slice.
C15_DisplayDomain ==
    Viewing =>
        /\ DomainAsComputed
        /\ df_month # << >> => FracLt(ma_domain[1], ma_domain[2])

\* C16: with negative moving averages among the sliced points the floor at 0
\* is not applied: low = min_v - padding, so low never exceeds the smallest
\* visible value.
C16_NoFloorOnNegatives ==
    Viewing /\ df_month # << >> /\ FracLt(MinVisible, FracInt(0)) =>
        /\ ma_domain[1] = FracSub(MinVisible, Padding)
        /\ ~FracLt(MinVisible, ma_domain[1])

(***************************************************************************)
(* Month navigation                                                        *)
(***************************************************************************)
\* the first day of the calendar month after, and before, the month of m
MonthAfter(m) ==
    IF m.month = 12 THEN [year |-> m.year + 1, month |-> 1, day |-> 1]
    ELSE [year |-> m.year, month |-> m.month + 1, day |-> 1]
MonthBefore(m) ==
    IF m.month = 1 THEN [year |-> m.year - 1, month |-> 12, day |-> 1]
    ELSE [year |-> m.year, month |-> m.month - 1, day |-> 1]

\* the first days of the months of a common year, a leap year and a century
\* year that is not a leap year
MonthStarts == {[year |-> y, month |-> m, day |-> 1] : y \in {2023, 2024, 2100}, m \in 1..12}

\* the two handlers on every month start of those years
StepsOfOneMonth ==
    \A m \in MonthStarts :
        /\ next_month(m) = MonthAfter(m)
        /\ prev_month(m) = MonthBefore(m)
        /\ prev_month(next_month(m)) = m

\* C17: after any sequence of previous / next commands the selected month is
\* the first day of a month; each next moves the selection exactly one
\* calendar month forward (December to January of the next year), each
\* previous exactly one back (January to December of the previous year),
\* and a previous after a next restores the selection.
C17_Navigation ==
    /\ [](StepsOfOneMonth /\ (Viewing => current_month.day = 1))
    /\ [][NextMonth => /\ current_month' = MonthAfter(current_month)
                       /\ prev_month(current_month') = current_month]_vars
    /\ [][Previous => /\ current_month' = MonthBefore(current_month)
                      /\ next_month(current_month') = current_month]_vars

\* December 2023 is shown: the session started in 2024 and went back over
\* the turn of the year
C17_Witness ==
    /\ Viewing
    /\ current_month = [year |-> 2023, month |-> 12, day |-> 1]
    /\ df_month # << >>

(***************************************************************************)
(* The paginated fetch                                                     *)
(***************************************************************************)
\* fetch_data has returned through its except branch
FetchFailed == pc # "fetch_data" /\ has_more

IsPrefix(a, b) == Len(a) <= Len(b) /\ SubSeq(b, 1, Len(a)) = a

\* C18: the paginated fetch is all-or-nothing: each request carries the
\* next_cursor of the response before it until a response has has_more
\* false, and the concatenation of all pages in arrival order is then
\* normalized; when a page request fails the pages fetched so far are
\* discarded and the result is empty, so a partial history never reaches
\* the series builder and main stops without composing a month view.
C18_AllOrNothing ==
    /\ [](/\ pc = "fetch_data" =>
                /\ has_more
                /\ request_body(start_cursor) = start_cursor
                /\ Position(start_cursor) = Len(results)
                /\ results = << >> \/ start_cursor = Cursor(Len(results))
          /\ ActivityNormalized => raw_df = process_raw_data(results)
          /\ FetchFailed =>
                /\ raw_df = << >>
                /\ df = << >>
                /\ ~Viewing
          /\ FetchFailed /\ pc \notin {"fetch_goal_data", "main", "crashed"} =>
                pc = "stopped")
    /\ [][pc = "fetch_data" => IsPrefix(results, results')]_vars
    /\ [][pc # "fetch_data" => results' = results /\ raw_df' = raw_df]_vars

\* the second request failed after a page with a usable record had arrived:
\* nothing of it is kept and the run has stopped
C18_Witness ==
    /\ FetchFailed
    /\ pc = "stopped"
    /\ process_raw_data(results) # << >>
    /\ raw_df = << >>

====
